---------------------------- MODULE Spec2Model ----------------------------
(***************************************************************************)
(* atomic_sparse_map (args::core): a sparse index table m_sparse mapping   *)
(* keys to slots of two parallel dense arrays, m_dense_key and             *)
(* m_dense_value, with m_size and m_capacity kept in atomics and the       *)
(* arrays guarded by m_container_lock.                                     *)
(*                                                                         *)
(* Beside it: the entity Registry (core/ecs/registry.inl), which hands out *)
(* and recycles entity ids and keeps the entity hierarchy, and             *)
(* async_operation (core/async), whose then waits for shared progress.     *)
(*                                                                         *)
(* Dense indices are 0-based as in the source; a TLA+ sequence s holds     *)
(* index i at s[i + 1].  A position (iterator) is the dense index it       *)
(* points at, end() being index m_size.                                    *)
(***************************************************************************)
EXTENDS Integers, Sequences, FiniteSets, TLC

\* Bounds of the model.
MaxVal == 1
MaxCap == 2

\* key_type is an unsigned integer id, value_type an integer payload;
\* reserve is called with sizes up to MaxCap.
Keys == 0..2
Values == 0..MaxVal

\* key_type() and value_type(): what std::vector::resize value-initialises
\* new slots with, and what operator[] stores for a missing key.
DefaultKey == 0
DefaultValue == 0

VARIABLES
    m_dense_value,  \* dense_value_container: the cells' values, by dense index
    m_dense_key,    \* dense_key_container
    m_sparse,       \* sparse_container: unordered_map key -> dense index
    m_size,         \* std::atomic<size_type>
    m_capacity,     \* std::atomic<size_type>
    last,           \* the call that was made last and what it returned
    shadow,         \* history: the keys added by a successful insert, emplace or
                    \* operator[] and not erased or cleared since, each with the
                    \* value the caller stored for it last
    m_container_lock, \* readonly_rw_spinlock: the exclusive holder and, per
                    \* thread, the shared acquisitions it holds
    thr,            \* per thread: where it stands in its call, and the call's locals
    ub,             \* undefined behaviour has happened (an access past the end
                    \* of a dense array, or a data race on m_sparse)
    m_entities,     \* Registry: unordered_map id -> entity_data
    m_entityCompositions, \* Registry: unordered_map id -> set of component ids
    m_recyclableEntities, \* Registry: std::queue of ids to hand out again
    m_nextEntityId, \* Registry: the next id never handed out
    m_progress,     \* async_operation: the async_progress it shares
    waiter          \* the thread that calls async_operation::then

container == <<m_dense_value, m_dense_key, m_sparse, m_size, m_capacity>>
threads == <<m_container_lock, thr, ub>>
registry == <<m_entities, m_entityCompositions, m_recyclableEntities, m_nextEntityId>>
operation == <<m_progress, waiter>>
engine == <<registry, operation>>
vars ==
    <<m_dense_value, m_dense_key, m_sparse, m_size, m_capacity, last, shadow,
      m_container_lock, thr, ub, m_entities, m_entityCompositions,
      m_recyclableEntities, m_nextEntityId, m_progress, waiter>>

\* The container's fields as one record, so that a member function is an
\* operator from the record before the call to the record after it.
Cur ==
    [dv |-> m_dense_value, dk |-> m_dense_key, sp |-> m_sparse,
     size |-> m_size, cap |-> m_capacity]

Become(c) ==
    /\ m_dense_value' = c.dv
    /\ m_dense_key' = c.dk
    /\ m_sparse' = c.sp
    /\ m_size' = c.size
    /\ m_capacity' = c.cap

----------------------------------------------------------------------------
\* Containers and cells.

\* s[i] of a std::vector, 0-based.
At(s, i) == s[i + 1]

\* std::vector::resize(n): keeps the first n elements, value-initialises the rest.
Resize(s, n, d) == [i \in 1..n |-> IF i <= Len(s) THEN s[i] ELSE d]

\* A faulty operator[]: the entry is value-initialised at every access.
SparseTouchResets(sp, k) == (k :> 0) @@ sp

\* std::unordered_map::operator[]: a missing key gets a value-initialised
\* (zero) entry; the map after the access.
SparseTouch(sp, k) == IF k \in DOMAIN sp THEN sp ELSE (k :> 0) @@ sp

\* transferable_atomic::store on the cell at dense index i.
store(dv, i, v) == [dv EXCEPT ![i + 1] = v]

\* transferable_atomic::load of the cell at dense index i.
load(dv, i) == At(dv, i)

----------------------------------------------------------------------------
\* Member functions, as operators on the container record.

size(c) == c.size

capacity(c) == c.cap

empty(c) == c.size = 0

\* A faulty clear: the backing storage is accounted as released.
clearReleasing(c) == [c EXCEPT !.size = 0, !.cap = 0]

\* clear(): m_size.store(0), nothing else.
clear(c) == [c EXCEPT !.size = 0]

\* A faulty reserve: the arrays grow, m_capacity is not stored.
reserveKeepsCapacity(c, n) ==
    IF n > c.cap
    THEN [c EXCEPT !.dv = Resize(@, n, DefaultValue),
                   !.dk = Resize(@, n, DefaultKey)]
    ELSE c

\* The exclusive section of reserve: both arrays resized, m_capacity stored.
reserveBody(c, n) ==
    [c EXCEPT !.dv = Resize(@, n, DefaultValue),
              !.dk = Resize(@, n, DefaultKey),
              !.cap = n]

\* A faulty reserve: the size > m_capacity test is missing.
reserveUnchecked(c, n) == reserveBody(c, n)

\* A faulty reserve: the arrays are reallocated without their contents.
reserveDroppingCells(c, n) ==
    IF n > c.cap
    THEN [c EXCEPT !.dv = Resize(<<>>, n, DefaultValue),
                   !.dk = Resize(<<>>, n, DefaultKey),
                   !.cap = n]
    ELSE c

\* reserve(n)
reserve(c, n) == IF n > c.cap THEN reserveBody(c, n) ELSE c

\* contains(key), non-const overload: every m_sparse[key] is operator[] of the
\* unordered_map, so the lookup leaves an entry for key behind.
containsTouch(c, k) == [c EXCEPT !.sp = SparseTouch(@, k)]

\* A faulty contains: the back-reference m_dense_key[index] == key is
\* not compared.
containsNoBackref(c, k) ==
    LET sp == SparseTouch(c.sp, k)
    IN  sp[k] >= 0 /\ sp[k] < c.size

containsValue(c, k) ==
    LET sp == SparseTouch(c.sp, k)
    IN  sp[k] >= 0 /\ sp[k] < c.size /\ At(c.dk, sp[k]) = k

\* contains(key) const: count() and at(), no entry is added.
containsConst(c, k) ==
    /\ k \in DOMAIN c.sp
    /\ c.sp[k] >= 0
    /\ c.sp[k] < c.size
    /\ At(c.dk, c.sp[k]) = k

\* The exclusive section shared by insert, emplace and operator[]: store the
\* value and the key at index m_size, point the sparse entry at it, ++m_size.
\* A faulty store of the value: the cell is value-initialised, val is dropped.
appendStoreDefault(c, v) == [c EXCEPT !.dv = store(@, c.size, DefaultValue)]

appendStoreValue(c, v) == [c EXCEPT !.dv = store(@, c.size, v)]

\* A faulty store of the key: it goes to the front of the array.
appendStoreKeyFront(c, k) == [c EXCEPT !.dk[1] = k]

appendStoreKey(c, k) == [c EXCEPT !.dk[c.size + 1] = k]

\* A faulty sparse update: the entry is left value-initialised.
appendSparseZero(c, k) == [c EXCEPT !.sp = (k :> 0) @@ @]

appendSetSparse(c, k) == [c EXCEPT !.sp = (k :> c.size) @@ @]

appendIncSize(c) == [c EXCEPT !.size = @ + 1]

append(c, k, v) ==
    appendIncSize(appendSetSparse(appendStoreKey(appendStoreValue(c, v), k), k))

\* A faulty growth: two slots are reserved at a time.
growByTwo(c) == IF c.size >= c.cap THEN reserve(c, c.size + 2) ELSE c

\* if (m_size >= m_capacity) reserve(m_size + 1);
growIfFull(c) == IF c.size >= c.cap THEN reserve(c, c.size + 1) ELSE c

\* A faulty insert: an existing key's cell is overwritten with val.
insertOverwrite(c, k, v) ==
    IF ~containsValue(c, k)
    THEN LET g == growIfFull(containsTouch(c, k))
         IN  [c |-> append(g, k, v), pos |-> g.size, ok |-> TRUE]
    ELSE [c |-> [c EXCEPT !.dv = store(@, SparseTouch(c.sp, k)[k], v)],
          pos |-> c.size, ok |-> FALSE]

\* insert(key, val): the container after the call, the position and the flag.
insert(c, k, v) ==
    IF ~containsValue(c, k)
    THEN LET g == growIfFull(containsTouch(c, k))
         IN  [c |-> append(g, k, v), pos |-> g.size, ok |-> TRUE]
    ELSE [c |-> containsTouch(c, k), pos |-> c.size, ok |-> FALSE]

\* value_type(arguments...) for an integral value_type built from one argument.
construct(a) == a

\* A faulty emplace: an existing key's cell is overwritten.
emplaceOverwrite(c, k, a) ==
    IF ~containsValue(c, k)
    THEN LET g == growIfFull(containsTouch(c, k))
         IN  [c |-> append(g, k, construct(a)), pos |-> g.size, ok |-> TRUE]
    ELSE [c |-> [c EXCEPT !.dv = store(@, SparseTouch(c.sp, k)[k], construct(a))],
          pos |-> c.size, ok |-> FALSE]

\* emplace(key, arguments...)
emplace(c, k, a) ==
    IF ~containsValue(c, k)
    THEN LET g == growIfFull(containsTouch(c, k))
         IN  [c |-> append(g, k, construct(a)), pos |-> g.size, ok |-> TRUE]
    ELSE [c |-> containsTouch(c, k), pos |-> c.size, ok |-> FALSE]

\* A faulty operator[]: the cell of a key that is present is reset as well.
indexResetting(c, k) ==
    LET absent == ~containsValue(c, k)
        g == containsTouch(c, k)
        d == IF absent
             THEN append(growIfFull(g), k, DefaultValue)
             ELSE [g EXCEPT !.dv = store(@, g.sp[k], DefaultValue)]
    IN  [c |-> d, pos |-> SparseTouch(d.sp, k)[k], ok |-> absent]

\* operator[](key), mutable: ok tells whether an entry was appended.
index(c, k) ==
    LET absent == ~containsValue(c, k)
        d == IF absent
             THEN append(growIfFull(containsTouch(c, k)), k, DefaultValue)
             ELSE containsTouch(c, k)
    IN  [c |-> d, pos |-> SparseTouch(d.sp, k)[k], ok |-> absent]

\* A faulty get: a missing key is added the way operator[] adds it.
getInserting(c, k) == index(c, k)

\* get(key), mutable: ok = FALSE stands for std::out_of_range.
get(c, k) ==
    LET d == containsTouch(c, k)
    IN  IF ~containsValue(c, k)
        THEN [c |-> d, pos |-> -1, ok |-> FALSE]
        ELSE [c |-> d, pos |-> d.sp[k], ok |-> TRUE]

\* get(key) const
getConst(c, k) ==
    IF ~containsConst(c, k)
    THEN [c |-> c, pos |-> -1, ok |-> FALSE]
    ELSE [c |-> c, pos |-> c.sp[k], ok |-> TRUE]

\* operator[](key) const
indexConst(c, k) ==
    IF ~containsConst(c, k)
    THEN [c |-> c, pos |-> -1, ok |-> FALSE]
    ELSE [c |-> c, pos |-> c.sp[k], ok |-> TRUE]

\* The three assignments of erase's exclusive section and --m_size.
\* A faulty erase: the last cell is not copied into the freed slot.
eraseKeepValue(c, k) == c

eraseMoveValue(c, k) ==
    [c EXCEPT !.dv = store(@, SparseTouch(c.sp, k)[k], load(c.dv, c.size - 1))]

\* A faulty erase: the last key is not copied into the freed slot.
eraseKeepKey(c, k) == c

eraseMoveKey(c, k) ==
    [c EXCEPT !.dk[SparseTouch(c.sp, k)[k] + 1] = At(c.dk, c.size - 1)]

\* A faulty erase: the relocated key's sparse entry is not redirected.
eraseSparseStale(c, k) == [c EXCEPT !.sp = SparseTouch(c.sp, k)]

eraseSetSparse(c, k) ==
    [c EXCEPT !.sp = (At(c.dk, c.size - 1) :> SparseTouch(c.sp, k)[k])
                        @@ SparseTouch(c.sp, k)]

\* A faulty erase: --m_size is left out.
eraseKeepSize(c) == c

eraseDecSize(c) == [c EXCEPT !.size = @ - 1]

\* A faulty erase: a key that is not contained still takes one off m_size.
eraseAbsentShrinks(c, k) ==
    IF containsValue(c, k)
    THEN LET t == containsTouch(c, k)
         IN  [c |-> eraseDecSize(eraseSetSparse(eraseMoveKey(eraseMoveValue(t, k), k), k)),
              pos |-> -1, ok |-> TRUE]
    ELSE [c |-> [containsTouch(c, k) EXCEPT !.size = IF @ > 0 THEN @ - 1 ELSE 0],
          pos |-> -1, ok |-> FALSE]

\* erase(key)
erase(c, k) ==
    IF containsValue(c, k)
    THEN LET t == containsTouch(c, k)
         IN  [c |-> eraseDecSize(eraseSetSparse(eraseMoveKey(eraseMoveValue(t, k), k), k)),
              pos |-> -1, ok |-> TRUE]
    ELSE [c |-> containsTouch(c, k), pos |-> -1, ok |-> FALSE]

\* A freshly constructed container.
fresh == [dv |-> <<>>, dk |-> <<>>, sp |-> <<>>, size |-> 0, cap |-> 0]

\* insert(ks[1], v), insert(ks[2], v), ... in this order.
RECURSIVE insertAll(_, _, _)
insertAll(c, ks, v) ==
    IF ks = <<>> THEN c ELSE insertAll(insert(c, Head(ks), v).c, Tail(ks), v)

\* begin() and end(), as dense indices.
begin(c) == 0

end(c) == c.size

\* std::find(first, last, val): the first position in [first, last) whose cell
\* compares equal to val, last when there is none.
RECURSIVE stdFind(_, _, _, _)
stdFind(dv, first, lst, v) ==
    IF first = lst THEN lst
    ELSE IF load(dv, first) = v THEN first
    ELSE stdFind(dv, first + 1, lst, v)

\* A faulty find: the scan runs over the whole array, stale slots included.
findToCapacity(c, v) ==
    LET p == stdFind(c.dv, begin(c), Len(c.dv), v)
    IN  IF p = Len(c.dv) THEN end(c) ELSE p

\* find(val)
find(c, v) == stdFind(c.dv, begin(c), end(c), v)

\* for (auto it = begin(); it != end(); ++it): the cells visited, in order.
iterate(c) == [i \in 1..(end(c) - begin(c)) |-> load(c.dv, begin(c) + i - 1)]

----------------------------------------------------------------------------
\* Registry (core/ecs/registry.inl): entities, their hierarchy and their ids.
\* An entity handle holds a pointer to an entity_data stored in m_entities; it
\* is written here as the key of that map entry, nullEntity for entity{nullptr}.

invalid_id == 0
world_entity_id == 1
nullEntity == 0

\* Ids the model lets m_nextEntityId hand out.
MaxEntityId == 4

ComponentTypes == {"position"}

\* A value-initialised entity_data, as try_emplace constructs it.
entity_data ==
    [alive |-> FALSE, active |-> FALSE, id |-> invalid_id,
     parent |-> nullEntity, children |-> {}]

\* The registry's fields as one record.
CurRegistry ==
    [ent |-> m_entities, comp |-> m_entityCompositions,
     rec |-> m_recyclableEntities, next |-> m_nextEntityId]

BecomeRegistry(R) ==
    /\ m_entities' = R.ent
    /\ m_entityCompositions' = R.comp
    /\ m_recyclableEntities' = R.rec
    /\ m_nextEntityId' = R.next

\* A handle used as a condition: data && data->alive.
valid(R, h) == h \in DOMAIN R.ent /\ R.ent[h].alive

\* The global handle world, which points at the world's entity_data.
world == world_entity_id

\* try_emplace(key): an entry is constructed only if there is none.
tryEmplace(f, k, d) == IF k \in DOMAIN f THEN f ELSE (k :> d) @@ f

\* Faulty ways to pick the next id: always a fresh one; the newest queued one.
getNextEntityIdFresh(R) == [id |-> R.next, R |-> [R EXCEPT !.next = @ + 1]]

getNextEntityIdNewest(R) ==
    IF R.rec = <<>>
    THEN [id |-> R.next, R |-> [R EXCEPT !.next = @ + 1]]
    ELSE [id |-> R.rec[Len(R.rec)],
          R |-> [R EXCEPT !.rec = SubSeq(@, 1, Len(@) - 1)]]

\* getNextEntityId(): the front of the queue, or m_nextEntityId++ if the
\* queue is empty.
getNextEntityId(R) ==
    IF R.rec = <<>>
    THEN [id |-> R.next, R |-> [R EXCEPT !.next = @ + 1]]
    ELSE [id |-> Head(R.rec), R |-> [R EXCEPT !.rec = Tail(@)]]

\* getWorld(): the world's entity_data and composition.
getWorld(R) ==
    [R EXCEPT
        !.ent = [tryEmplace(@, world_entity_id, entity_data) EXCEPT
                    ![world_entity_id] =
                        [@ EXCEPT !.alive = TRUE, !.active = TRUE,
                                  !.id = world_entity_id, !.parent = nullEntity]],
        !.comp = tryEmplace(@, world_entity_id, {})]

\* createEntity(parent): the registry after the call and the id of the entity
\* returned.
createEntity(R, parent) ==
    LET g == getNextEntityId(R)
        id == g.id
        data == [tryEmplace(g.R.ent, id, entity_data) EXCEPT
                    ![id] = [@ EXCEPT !.alive = TRUE, !.active = TRUE,
                                      !.id = id, !.parent = parent]]
        linked == IF parent \in DOMAIN data /\ data[parent].alive
                  THEN [data EXCEPT ![parent].children = @ \cup {id}]
                  ELSE data
    IN  [R |-> [g.R EXCEPT !.ent = linked, !.comp = tryEmplace(@, id, {})],
         id |-> id]

\* createComponent<component_type>(target): the composition's part of it;
\* at(target) throws for a handle that converts to no id of the map.
createComponent(R, target, type) ==
    IF valid(R, target) /\ R.ent[target].id \in DOMAIN R.comp
    THEN [R EXCEPT !.comp[R.ent[target].id] = @ \cup {type}]
    ELSE R

\* destroyEntity, its statements in turn.  The entity leaves its parent's
\* children; children.erase(target) finds target only while target is alive.
orphan(R, target) ==
    LET d == R.ent[target]
    IN  IF valid(R, d.parent) /\ d.alive
        THEN [R EXCEPT !.ent[d.parent].children = @ \ {target}]
        ELSE R

\* A faulty version: the parent handle is kept.
markDeadKeepsParent(R, target) ==
    [R EXCEPT !.ent[target] = [@ EXCEPT !.alive = FALSE, !.active = FALSE]]

\* target->parent = entity{ nullptr }; alive and active are reset.
markDead(R, target) ==
    [R EXCEPT !.ent[target] =
        [@ EXCEPT !.parent = nullEntity, !.alive = FALSE, !.active = FALSE]]

\* A faulty version: the child joins the world's children, its parent
\* handle is left pointing at the destroyed entity.
adoptChildOnly(R, child) ==
    [R EXCEPT !.ent[world].children = @ \cup {child}]

\* world->children.insert(child); child->parent = world;
adopt(R, child) ==
    [R EXCEPT !.ent = [[@ EXCEPT ![world].children = @ \cup {child}]
                          EXCEPT ![child].parent = world]]

\* target->children.clear();
clearChildren(R, target) == [R EXCEPT !.ent[target].children = {}]

\* A faulty version: the id is queued twice.
recycleTwice(R, target) ==
    LET id == R.ent[target].id
    IN  IF id \notin DOMAIN R.comp THEN R
        ELSE [R EXCEPT !.comp[id] = {},
                       !.rec = Append(Append(@, id), id),
                       !.ent[target].id = invalid_id]

\* A faulty version: the id stays with the dead entity.
recycleKeepsId(R, target) ==
    LET id == R.ent[target].id
    IN  IF id \notin DOMAIN R.comp THEN R
        ELSE [R EXCEPT !.comp[id] = {}, !.rec = Append(@, id)]

\* The composition is cleared, the id queued for reuse and invalidated;
\* m_entityCompositions.at(target->id) throws for an id without composition,
\* which ends the call there.
recycle(R, target) ==
    LET id == R.ent[target].id
    IN  IF id \notin DOMAIN R.comp THEN R
        ELSE [R EXCEPT !.comp[id] = {},
                       !.rec = Append(@, id),
                       !.ent[target].id = invalid_id]

RECURSIVE destroyEntity(_, _, _, _)
RECURSIVE destroyChildren(_, _, _, _)

\* for (auto& child : target->children): destroy the child as well, or hand
\* it to the world.
destroyChildren(R, kids, recurse, ord) ==
    IF kids = <<>> THEN R
    ELSE destroyChildren(
            IF recurse THEN destroyEntity(R, Head(kids), recurse, ord)
            ELSE adopt(R, Head(kids)),
            Tail(kids), recurse, ord)

\* destroyEntity(target, recurse); ord is the order the children set is
\* iterated in.
destroyEntity(R, target, recurse, ord) ==
    LET dead == markDead(orphan(R, target), target)
        kids == SelectSeq(ord, LAMBDA h : h \in dead.ent[target].children)
    IN  recycle(clearChildren(destroyChildren(dead, kids, recurse, ord), target), target)

\* The registry once the world has been created.
created == getWorld([ent |-> <<>>, comp |-> <<>>, rec |-> <<>>, next |-> world_entity_id + 1])

----------------------------------------------------------------------------
\* async_operation (core/async): a handle on work in progress.  The worker
\* advances the shared async_progress; other threads call then, which waits
\* for the progress to be done and invokes m_repeater.

\* What async_progress::m_size is constructed with, and the calls of then a
\* thread makes.
ProgressSize == 2
MaxThen == 2

\* The threads that call then.
Waiters == {1, 2}

Priorities == {"sleep", "normal", "real_time"}

\* async_progress::is_done(): the progress has reached the size.
is_done(p) == p.m_progress >= p.m_size

\* async_progress::advance_progress(progress) and complete().
advance_progress(p, n) == [p EXCEPT !.m_progress = @ + n]

complete(p) == [p EXCEPT !.m_progress = p.m_size]

\* Faulty loop conditions: the loop is never entered; it runs while done.
waitsNever(p) == FALSE

waitsWhileDone(p) == is_done(p)

\* wait: while (!m_progress->is_done())
waits(p) == ~is_done(p)

\* A thread that is not inside then: done is what its last test of is_done()
\* gave, ran the number of times it has invoked m_repeater.
Outside == [pc |-> "idle", priority |-> "normal", done |-> FALSE, ran |-> 0]

----------------------------------------------------------------------------
\* Single-threaded use: one action per call.

\* What last keeps of a call: the member function and its boolean outcome (the
\* inserted flag, erase's result, contains' result, FALSE for std::out_of_range).
Call(op, r) == [op |-> op, ok |-> r.ok]

Without(f, k) == [x \in DOMAIN f \ {k} |-> f[x]]

\* The threads sharing the container: two that add entries, one that reads.
Writers == {1, 2}
Readers == {3}
Threads == Writers \cup Readers

\* A thread between calls; ok, pos and nins are what its calls have returned:
\* the boolean outcome and the position of the last one, and the number of
\* insert and emplace calls that returned inserted == true.
Idle ==
    [pc |-> "idle", op |-> "none", key |-> 0, val |-> 0, n |-> 0, tmp |-> 0,
     ok |-> FALSE, pos |-> -1, calls |-> 0, nins |-> 0]

Init ==
    /\ m_container_lock = [w |-> 0, r |-> [t \in Threads |-> 0]]
    /\ thr = [t \in Threads |-> Idle]
    /\ ub = FALSE
    /\ m_dense_value = <<>>
    /\ m_dense_key = <<>>
    /\ m_sparse = <<>>
    /\ m_size = 0
    /\ m_capacity = 0
    /\ last = [op |-> "init", ok |-> TRUE]
    /\ shadow = <<>>
    /\ m_entities = created.ent
    /\ m_entityCompositions = created.comp
    /\ m_recyclableEntities = created.rec
    /\ m_nextEntityId = created.next
    /\ m_progress = [m_size |-> ProgressSize, m_progress |-> 0]
    /\ waiter = [t \in Waiters |-> Outside]

Insert(k, v) ==
    LET r == insert(Cur, k, v)
    IN  /\ Become(r.c)
        /\ last' = Call("insert", r)
        /\ shadow' = IF r.ok THEN (k :> v) @@ shadow ELSE shadow
        /\ UNCHANGED <<threads, engine>>

Emplace(k, a) ==
    LET r == emplace(Cur, k, a)
    IN  /\ Become(r.c)
        /\ last' = Call("emplace", r)
        /\ shadow' = IF r.ok THEN (k :> construct(a)) @@ shadow ELSE shadow
        /\ UNCHANGED <<threads, engine>>

Index(k) ==
    LET r == index(Cur, k)
    IN  /\ Become(r.c)
        /\ last' = Call("index", r)
        /\ shadow' = IF r.ok THEN (k :> DefaultValue) @@ shadow ELSE shadow
        /\ UNCHANGED <<threads, engine>>

Get(k) ==
    LET r == get(Cur, k)
    IN  /\ Become(r.c)
        /\ last' = Call("get", r)
        /\ UNCHANGED <<shadow, threads, engine>>

GetConst(k) ==
    LET r == getConst(Cur, k)
    IN  /\ Become(r.c)
        /\ last' = Call("getConst", r)
        /\ UNCHANGED <<shadow, threads, engine>>

Contains(k) ==
    /\ Become(containsTouch(Cur, k))
    /\ last' = Call("contains", [ok |-> containsValue(Cur, k), pos |-> -1])
    /\ UNCHANGED <<shadow, threads, engine>>

ContainsConst(k) ==
    /\ last' = Call("containsConst", [ok |-> containsConst(Cur, k), pos |-> -1])
    /\ UNCHANGED <<container, shadow, threads, engine>>

\* get(key).store(val): the caller replaces the value held by key's cell.
Store(k, v) ==
    LET r == get(Cur, k)
    IN  /\ Become(IF r.ok THEN [r.c EXCEPT !.dv = store(@, r.pos, v)] ELSE r.c)
        /\ last' = Call("store", r)
        /\ shadow' = IF r.ok /\ k \in DOMAIN shadow
                     THEN [shadow EXCEPT ![k] = v] ELSE shadow
        /\ UNCHANGED <<threads, engine>>

Erase(k) ==
    LET r == erase(Cur, k)
    IN  /\ Become(r.c)
        /\ last' = Call("erase", r)
        /\ shadow' = IF r.ok THEN Without(shadow, k) ELSE shadow
        /\ UNCHANGED <<threads, engine>>

Clear ==
    /\ Become(clear(Cur))
    /\ last' = Call("clear", [ok |-> TRUE, pos |-> -1])
    /\ shadow' = <<>>
    /\ UNCHANGED <<threads, engine>>

Reserve(n) ==
    /\ Become(reserve(Cur, n))
    /\ last' = Call("reserve", [ok |-> TRUE, pos |-> -1])
    /\ UNCHANGED <<shadow, threads, engine>>

Find(v) ==
    /\ last' = Call("find", [ok |-> find(Cur, v) < m_size, pos |-> find(Cur, v)])
    /\ UNCHANGED <<container, shadow, threads, engine>>

Next ==
    \/ \E k \in Keys, v \in Values : Insert(k, v)
    \/ \E k \in Keys, a \in Values : Emplace(k, a)
    \/ \E k \in Keys : Index(k)
    \/ \E k \in Keys : Get(k)
    \/ \E k \in Keys : GetConst(k)
    \/ \E k \in Keys : Contains(k)
    \/ \E k \in Keys : ContainsConst(k)
    \/ \E k \in Keys, v \in Values : Store(k, v)
    \/ \E k \in Keys : Erase(k)
    \/ Clear
    \/ \E n \in 0..MaxCap : Reserve(n)
    \/ \E v \in Values : Find(v)

Spec == Init /\ [][Next]_vars

----------------------------------------------------------------------------
\* Concurrent use: a call is a sequence of steps, one per lock acquisition, per
\* guarded section or statement of it, and per atomic load made outside a guard.

\* Calls a writer and a reader make in a concurrent run.
MaxCalls == 2
MaxReads == 1

Budget(t) == IF t \in Writers THEN MaxCalls ELSE MaxReads

\* readonly_guard: shared acquisition spins while the lock is held exclusively
\* or a thread is waiting for exclusive access.
WaitsExclusive(t) == thr[t].pc \in {"r_acq", "a_acq", "x_acq"}

CanShare(t) ==
    /\ m_container_lock.w = 0
    /\ \A u \in Threads \ {t} : ~WaitsExclusive(u)

\* readwrite_guard: exclusive acquisition spins while anyone holds the lock.
CanExclusive(t) ==
    /\ m_container_lock.w = 0
    /\ \A u \in Threads : m_container_lock.r[u] = 0

lockShared(t) == [m_container_lock EXCEPT !.r[t] = @ + 1]

\* A faulty readonly_guard: leaving the scope does not release the lock.
unlockSharedLeaks(t) == m_container_lock

unlockShared(t) == [m_container_lock EXCEPT !.r[t] = @ - 1]

lockExclusive(t) == [m_container_lock EXCEPT !.w = t]

unlockExclusive(t) == [m_container_lock EXCEPT !.w = 0]

\* Thread t adds an entry to m_sparse inside a shared section while another
\* thread is inside a shared section that accesses m_sparse: a data race.
RacesOnSparse(t, k) ==
    /\ k \notin DOMAIN m_sparse
    /\ \E u \in Threads \ {t} : thr[u].pc \in {"c_body", "ref_body"}

\* Thread t looks its key up in m_sparse inside a shared section while another
\* thread is inside a shared section in which it adds an entry to m_sparse: the
\* lookup races with the insertion.
RacedBy(t) ==
    \E u \in Threads \ {t} :
        /\ thr[u].pc \in {"c_body", "ref_body"}
        /\ thr[u].key \notin DOMAIN m_sparse

Begin(t, op, k, v) ==
    /\ thr[t].pc = "idle"
    /\ thr[t].calls < Budget(t)
    /\ thr' = [thr EXCEPT ![t] = [@ EXCEPT !.pc = "c_acq", !.op = op, !.key = k,
                                           !.val = v, !.calls = @ + 1]]
    /\ UNCHANGED <<container, last, shadow, m_container_lock, ub, engine>>

CallInsert(t, k, v) == Begin(t, "insert", k, v)

CallEmplace(t, k, a) == Begin(t, "emplace", k, construct(a))

CallIndex(t, k) == Begin(t, "index", k, DefaultValue)

CallGet(t, k) == Begin(t, "get", k, 0)

CallContains(t, k) == Begin(t, "contains", k, 0)

\* The call returns: its outcome is kept, its locals are dropped.
Returned(c, ok, pos) ==
    [c EXCEPT !.pc = "idle", !.ok = ok, !.pos = pos, !.n = 0, !.tmp = 0]

\* contains(key): readonly_guard lock(m_container_lock);
ContainsAcquire(t) ==
    /\ thr[t].pc = "c_acq"
    /\ CanShare(t)
    /\ m_container_lock' = lockShared(t)
    /\ thr' = [thr EXCEPT ![t].pc = "c_body"]
    /\ UNCHANGED <<container, last, shadow, ub, engine>>

\* Where the caller goes on with contains' result.
AfterContains(c, found) ==
    CASE c.op = "contains" -> Returned(c, found, -1)
      [] c.op = "get" ->
            IF found THEN [c EXCEPT !.pc = "ref_acq"] ELSE Returned(c, FALSE, -1)
      [] c.op = "index" ->
            IF found THEN [c EXCEPT !.pc = "ref_acq"] ELSE [c EXCEPT !.pc = "a_ld_size"]
      [] c.op = "erase" ->
            IF found THEN [c EXCEPT !.pc = "x_acq"] ELSE Returned(c, FALSE, -1)
      [] OTHER ->
            IF found THEN [c EXCEPT !.pc = "e_acq"] ELSE [c EXCEPT !.pc = "a_ld_size"]

\* contains(key): the return expression and the guard's release.  A sparse
\* index below m_size but past the end of m_dense_key reads foreign memory, and
\* a lookup that races with an insertion into m_sparse reads a table in flux:
\* the result may come out either way.
ContainsBody(t) ==
    LET k == thr[t].key
        i == SparseTouch(m_sparse, k)[k]
    IN  /\ thr[t].pc = "c_body"
        /\ m_sparse' = containsTouch(Cur, k).sp
        /\ m_container_lock' = unlockShared(t)
        /\ \E found \in BOOLEAN :
            /\ IF (i < m_size /\ i >= Len(m_dense_key)) \/ RacedBy(t)
               THEN ub' = TRUE
               ELSE found = containsValue(Cur, k) /\ ub' = (ub \/ RacesOnSparse(t, k))
            /\ thr' = [thr EXCEPT ![t] = AfterContains(@, found)]
        /\ UNCHANGED <<m_dense_value, m_dense_key, m_size, m_capacity, last, shadow, engine>>

\* if (m_size >= m_capacity): the load of m_size ...
GrowLoadSize(t) ==
    /\ thr[t].pc = "a_ld_size"
    /\ thr' = [thr EXCEPT ![t] = [@ EXCEPT !.pc = "a_ld_cap", !.tmp = m_size]]
    /\ UNCHANGED <<container, last, shadow, m_container_lock, ub, engine>>

\* ... and the load of m_capacity it is compared with.
GrowLoadCapacity(t) ==
    /\ thr[t].pc = "a_ld_cap"
    /\ thr' = [thr EXCEPT ![t] =
                [@ EXCEPT !.pc = IF thr[t].tmp >= m_capacity THEN "a_arg" ELSE "a_acq",
                          !.tmp = 0]]
    /\ UNCHANGED <<container, last, shadow, m_container_lock, ub, engine>>

\* reserve(m_size + 1): the argument is a fresh load of m_size.
GrowArgument(t) ==
    /\ thr[t].pc = "a_arg"
    /\ thr' = [thr EXCEPT ![t] = [@ EXCEPT !.pc = "r_check", !.n = m_size + 1]]
    /\ UNCHANGED <<container, last, shadow, m_container_lock, ub, engine>>

\* reserve returns: to its caller, or into insert, emplace or operator[].
AfterReserve(c) ==
    IF c.op = "reserve" THEN Returned(c, TRUE, -1)
    ELSE [c EXCEPT !.pc = "a_acq", !.n = 0]

\* reserve: if (size > m_capacity.load())
ReserveCheck(t) ==
    /\ thr[t].pc = "r_check"
    /\ thr' = [thr EXCEPT ![t] =
                IF thr[t].n > m_capacity
                THEN [@ EXCEPT !.pc = "r_acq"]
                ELSE AfterReserve(@)]
    /\ UNCHANGED <<container, last, shadow, m_container_lock, ub, engine>>

\* reserve: readwrite_guard lock(m_container_lock);
ReserveAcquire(t) ==
    /\ thr[t].pc = "r_acq"
    /\ CanExclusive(t)
    /\ m_container_lock' = lockExclusive(t)
    /\ thr' = [thr EXCEPT ![t].pc = "r_body"]
    /\ UNCHANGED <<container, last, shadow, ub, engine>>

\* reserve: the two resize calls, the store of m_capacity, the guard's release.
ReserveBody(t) ==
    /\ thr[t].pc = "r_body"
    /\ Become(reserveBody(Cur, thr[t].n))
    /\ m_container_lock' = unlockExclusive(t)
    /\ thr' = [thr EXCEPT ![t] = AfterReserve(@)]
    /\ UNCHANGED <<last, shadow, ub, engine>>

\* insert, emplace, operator[]: readwrite_guard lock(m_container_lock);
AppendAcquire(t) ==
    /\ thr[t].pc = "a_acq"
    /\ CanExclusive(t)
    /\ m_container_lock' = lockExclusive(t)
    /\ thr' = [thr EXCEPT ![t].pc = "a_value"]
    /\ UNCHANGED <<container, last, shadow, ub, engine>>

\* itr_value = m_dense_value.begin() + m_size; itr_value->store(val).  A store
\* past the end of the array lands outside it.
AppendValue(t) ==
    /\ thr[t].pc = "a_value"
    /\ IF m_size < Len(m_dense_value)
       THEN m_dense_value' = appendStoreValue(Cur, thr[t].val).dv /\ UNCHANGED ub
       ELSE UNCHANGED m_dense_value /\ ub' = TRUE
    /\ thr' = [thr EXCEPT ![t] = [@ EXCEPT !.pc = "a_key", !.tmp = m_size]]
    /\ UNCHANGED <<m_dense_key, m_sparse, m_size, m_capacity, last, shadow,
                   m_container_lock, engine>>

\* itr_key = m_dense_key.begin() + m_size; *itr_key = key;
AppendKey(t) ==
    /\ thr[t].pc = "a_key"
    /\ IF m_size < Len(m_dense_key)
       THEN m_dense_key' = appendStoreKey(Cur, thr[t].key).dk /\ UNCHANGED ub
       ELSE UNCHANGED m_dense_key /\ ub' = TRUE
    /\ thr' = [thr EXCEPT ![t].pc = "a_sparse"]
    /\ UNCHANGED <<m_dense_value, m_sparse, m_size, m_capacity, last, shadow,
                   m_container_lock, engine>>

\* m_sparse[key] = m_size;
AppendSparse(t) ==
    /\ thr[t].pc = "a_sparse"
    /\ m_sparse' = appendSetSparse(Cur, thr[t].key).sp
    /\ thr' = [thr EXCEPT ![t].pc = "a_inc"]
    /\ UNCHANGED <<m_dense_value, m_dense_key, m_size, m_capacity, last, shadow,
                   m_container_lock, ub, engine>>

\* ++m_size; the guard's release; insert and emplace return (itr_value, true),
\* operator[] goes on to its readonly section.
AppendIncrement(t) ==
    /\ thr[t].pc = "a_inc"
    /\ m_size' = appendIncSize(Cur).size
    /\ m_container_lock' = unlockExclusive(t)
    /\ shadow' = (thr[t].key :> thr[t].val) @@ shadow
    /\ thr' = [thr EXCEPT ![t] =
                IF thr[t].op = "index"
                THEN [@ EXCEPT !.pc = "ref_acq", !.tmp = 0]
                ELSE [Returned(@, TRUE, thr[t].tmp) EXCEPT !.nins = @ + 1]]
    /\ UNCHANGED <<m_dense_value, m_dense_key, m_sparse, m_capacity, last, ub, engine>>

\* end(): readonly_guard lock(m_container_lock);
EndAcquire(t) ==
    /\ thr[t].pc = "e_acq"
    /\ CanShare(t)
    /\ m_container_lock' = lockShared(t)
    /\ thr' = [thr EXCEPT ![t].pc = "e_body"]
    /\ UNCHANGED <<container, last, shadow, ub, engine>>

\* end(): begin() + m_size.load(); return std::make_pair(end(), false);
EndBody(t) ==
    /\ thr[t].pc = "e_body"
    /\ m_container_lock' = unlockShared(t)
    /\ thr' = [thr EXCEPT ![t] = Returned(@, FALSE, m_size)]
    /\ UNCHANGED <<container, last, shadow, ub, engine>>

\* get, operator[]: readonly_guard lock(m_container_lock);
RefAcquire(t) ==
    /\ thr[t].pc = "ref_acq"
    /\ CanShare(t)
    /\ m_container_lock' = lockShared(t)
    /\ thr' = [thr EXCEPT ![t].pc = "ref_body"]
    /\ UNCHANGED <<container, last, shadow, ub, engine>>

\* get, operator[]: return m_dense_value[m_sparse[key]];  a lookup that races
\* with an insertion into m_sparse yields any index (-1: none inside the array).
RefBody(t) ==
    LET k == thr[t].key
    IN  /\ thr[t].pc = "ref_body"
        /\ m_sparse' = SparseTouch(m_sparse, k)
        /\ m_container_lock' = unlockShared(t)
        /\ IF RacedBy(t)
           THEN /\ ub' = TRUE
                /\ \E p \in -1..(Len(m_dense_value) - 1) :
                        thr' = [thr EXCEPT ![t] = Returned(@, TRUE, p)]
           ELSE /\ ub' = (ub \/ RacesOnSparse(t, k))
                /\ thr' = [thr EXCEPT ![t] = Returned(@, TRUE, SparseTouch(m_sparse, k)[k])]
        /\ UNCHANGED <<m_dense_value, m_dense_key, m_size, m_capacity, last, shadow, engine>>

\* Once behaviour is undefined the process may be terminated at any point.
Abort ==
    /\ ub
    /\ \E t \in Threads : thr[t].pc # "aborted"
    /\ thr' = [t \in Threads |-> [Idle EXCEPT !.pc = "aborted"]]
    /\ UNCHANGED <<container, last, shadow, m_container_lock, ub, engine>>

Step(t) ==
    \/ ContainsAcquire(t)
    \/ ContainsBody(t)
    \/ GrowLoadSize(t)
    \/ GrowLoadCapacity(t)
    \/ GrowArgument(t)
    \/ ReserveCheck(t)
    \/ ReserveAcquire(t)
    \/ ReserveBody(t)
    \/ AppendAcquire(t)
    \/ AppendValue(t)
    \/ AppendKey(t)
    \/ AppendSparse(t)
    \/ AppendIncrement(t)
    \/ EndAcquire(t)
    \/ EndBody(t)
    \/ RefAcquire(t)
    \/ RefBody(t)

CallErase(t, k) == Begin(t, "erase", k, 0)

CallReserve(t, n) ==
    /\ thr[t].pc = "idle"
    /\ thr[t].calls < Budget(t)
    /\ thr' = [thr EXCEPT ![t] = [@ EXCEPT !.pc = "r_check", !.op = "reserve",
                                           !.n = n, !.calls = @ + 1]]
    /\ UNCHANGED <<container, last, shadow, m_container_lock, ub, engine>>

CallClear(t) ==
    /\ thr[t].pc = "idle"
    /\ thr[t].calls < Budget(t)
    /\ thr' = [thr EXCEPT ![t] = [@ EXCEPT !.pc = "cl_store", !.op = "clear",
                                           !.calls = @ + 1]]
    /\ UNCHANGED <<container, last, shadow, m_container_lock, ub, engine>>

\* clear(): m_size.store(0, std::memory_order_release); no guard is taken.
ClearStore(t) ==
    /\ thr[t].pc = "cl_store"
    /\ m_size' = clear(Cur).size
    /\ shadow' = <<>>
    /\ thr' = [thr EXCEPT ![t] = Returned(@, TRUE, -1)]
    /\ UNCHANGED <<m_dense_value, m_dense_key, m_sparse, m_capacity, last,
                   m_container_lock, ub, engine>>

\* erase: readwrite_guard lock(m_container_lock);
EraseAcquire(t) ==
    /\ thr[t].pc = "x_acq"
    /\ CanExclusive(t)
    /\ m_container_lock' = lockExclusive(t)
    /\ thr' = [thr EXCEPT ![t].pc = "x_value"]
    /\ UNCHANGED <<container, last, shadow, ub, engine>>

\* The indices erase's exclusive section uses, m_sparse[key] and m_size - 1,
\* both lie inside the dense arrays (m_size - 1 wraps around when m_size is 0).
EraseInBounds(k) ==
    /\ m_size >= 1
    /\ m_size - 1 < Len(m_dense_key)
    /\ SparseTouch(m_sparse, k)[k] < Len(m_dense_key)

\* m_dense_value[m_sparse[key]] = m_dense_value[m_size - 1];
EraseValue(t) ==
    /\ thr[t].pc = "x_value"
    /\ IF EraseInBounds(thr[t].key)
       THEN m_dense_value' = eraseMoveValue(Cur, thr[t].key).dv /\ UNCHANGED ub
       ELSE UNCHANGED m_dense_value /\ ub' = TRUE
    /\ thr' = [thr EXCEPT ![t].pc = "x_key"]
    /\ UNCHANGED <<m_dense_key, m_sparse, m_size, m_capacity, last, shadow,
                   m_container_lock, engine>>

\* m_dense_key[m_sparse[key]] = m_dense_key[m_size - 1];
EraseKey(t) ==
    /\ thr[t].pc = "x_key"
    /\ IF EraseInBounds(thr[t].key)
       THEN /\ m_dense_key' = eraseMoveKey(Cur, thr[t].key).dk
            /\ thr' = [thr EXCEPT ![t] = [@ EXCEPT !.pc = "x_sparse",
                                          !.tmp = At(m_dense_key, m_size - 1)]]
            /\ UNCHANGED ub
       ELSE /\ UNCHANGED m_dense_key
            /\ thr' = [thr EXCEPT ![t].pc = "x_sparse"]
            /\ ub' = TRUE
    /\ UNCHANGED <<m_dense_value, m_sparse, m_size, m_capacity, last, shadow,
                   m_container_lock, engine>>

\* m_sparse[m_dense_key[m_size - 1]] = m_sparse[key];
EraseSparse(t) ==
    /\ thr[t].pc = "x_sparse"
    /\ IF EraseInBounds(thr[t].key)
       THEN m_sparse' = eraseSetSparse(Cur, thr[t].key).sp /\ UNCHANGED ub
       ELSE UNCHANGED m_sparse /\ ub' = TRUE
    /\ thr' = [thr EXCEPT ![t] = [@ EXCEPT !.pc = "x_dec", !.tmp = 0]]
    /\ UNCHANGED <<m_dense_value, m_dense_key, m_size, m_capacity, last, shadow,
                   m_container_lock, engine>>

\* --m_size; return true; the guard's release.
EraseDecrement(t) ==
    /\ thr[t].pc = "x_dec"
    /\ IF m_size >= 1
       THEN m_size' = eraseDecSize(Cur).size /\ UNCHANGED ub
       ELSE UNCHANGED m_size /\ ub' = TRUE
    /\ m_container_lock' = unlockExclusive(t)
    /\ shadow' = Without(shadow, thr[t].key)
    /\ thr' = [thr EXCEPT ![t] = Returned(@, TRUE, -1)]
    /\ UNCHANGED <<m_dense_value, m_dense_key, m_sparse, m_capacity, last, engine>>

\* The steps of erase's exclusive section.
StepErase(t) ==
    \/ EraseAcquire(t)
    \/ EraseValue(t)
    \/ EraseKey(t)
    \/ EraseSparse(t)
    \/ EraseDecrement(t)

StepMutate(t) ==
    \/ ClearStore(t)
    \/ StepErase(t)

CallFind(t, v) ==
    /\ thr[t].pc = "idle"
    /\ thr[t].calls < Budget(t)
    /\ thr' = [thr EXCEPT ![t] = [@ EXCEPT !.pc = "f_acq", !.op = "find",
                                           !.val = v, !.calls = @ + 1]]
    /\ UNCHANGED <<container, last, shadow, m_container_lock, ub, engine>>

\* find: readonly_guard lock(m_container_lock); then std::find(begin(), end(),
\* val), whose two arguments are evaluated in either order (n = 1: begin()
\* first, n = 2: end() first).
FindAcquire(t) ==
    /\ thr[t].pc = "f_acq"
    /\ CanShare(t)
    /\ m_container_lock' = lockShared(t)
    /\ \E first \in {1, 2} :
        thr' = [thr EXCEPT ![t] = [@ EXCEPT !.pc = IF first = 1 THEN "fb_acq" ELSE "fe_acq",
                                            !.n = first]]
    /\ UNCHANGED <<container, last, shadow, ub, engine>>

\* begin(), called by find with find's guard still held: a second
\* readonly_guard on m_container_lock by the same thread.  The acquisition
\* either goes through as one more shared holder or, with a thread waiting for
\* exclusive access, spins.
FindBeginAcquire(t) ==
    /\ thr[t].pc = "fb_acq"
    /\ CanShare(t)
    /\ m_container_lock' = lockShared(t)
    /\ thr' = [thr EXCEPT ![t].pc = "fb_body"]
    /\ UNCHANGED <<container, last, shadow, ub, engine>>

\* begin(): return m_dense_value.begin(); the inner guard's release.
FindBeginBody(t) ==
    /\ thr[t].pc = "fb_body"
    /\ m_container_lock' = unlockShared(t)
    /\ thr' = [thr EXCEPT ![t].pc = IF thr[t].n = 1 THEN "fe_acq" ELSE "f_scan"]
    /\ UNCHANGED <<container, last, shadow, ub, engine>>

\* end(), called by find with find's guard still held.
FindEndAcquire(t) ==
    /\ thr[t].pc = "fe_acq"
    /\ CanShare(t)
    /\ m_container_lock' = lockShared(t)
    /\ thr' = [thr EXCEPT ![t].pc = "fe_body"]
    /\ UNCHANGED <<container, last, shadow, ub, engine>>

\* end(): return m_dense_value.begin() + m_size.load(); the inner guard's release.
FindEndBody(t) ==
    /\ thr[t].pc = "fe_body"
    /\ m_container_lock' = unlockShared(t)
    /\ thr' = [thr EXCEPT ![t] = [@ EXCEPT !.pc = IF thr[t].n = 2 THEN "fb_acq" ELSE "f_scan",
                                            !.tmp = end(Cur)]]
    /\ UNCHANGED <<container, last, shadow, ub, engine>>

\* std::find over [begin(), end()) as they were returned, find's return and
\* the release of its guard.  An end() past the array makes the scan read
\* foreign memory.
FindScan(t) ==
    /\ thr[t].pc = "f_scan"
    /\ m_container_lock' = unlockShared(t)
    /\ IF thr[t].tmp <= Len(m_dense_value)
       THEN /\ thr' = [thr EXCEPT ![t] =
                        Returned(@, stdFind(m_dense_value, begin(Cur), thr[t].tmp, thr[t].val)
                                        # thr[t].tmp,
                                    stdFind(m_dense_value, begin(Cur), thr[t].tmp, thr[t].val))]
            /\ UNCHANGED ub
       ELSE /\ \E p \in 0..thr[t].tmp :
                thr' = [thr EXCEPT ![t] = Returned(@, p # thr[t].tmp, p)]
            /\ ub' = TRUE
    /\ UNCHANGED <<container, last, shadow, engine>>

StepFind(t) ==
    \/ FindAcquire(t)
    \/ FindBeginAcquire(t)
    \/ FindBeginBody(t)
    \/ FindEndAcquire(t)
    \/ FindEndBody(t)
    \/ FindScan(t)

\* Each writer inserts keys of its own, the reader looks keys up.
OwnKeys(t) == {k \in Keys : k % 2 = t % 2}

NextInserts ==
    \/ \E t \in Writers : \E k \in OwnKeys(t), v \in Values : CallInsert(t, k, v)
    \/ \E t \in Readers, k \in Keys : CallContains(t, k)
    \/ \E t \in Readers, k \in Keys : CallGet(t, k)
    \/ \E t \in Threads : Step(t)
    \/ Abort

SpecInserts == Init /\ [][NextInserts]_vars

\* One writer inserts and erases keys, the other one reserves and clears, the
\* reader looks keys up.
Inserter == CHOOSE t \in Writers : \A u \in Writers : t <= u

Clearer == CHOOSE t \in Writers : t # Inserter

NextMutators ==
    \/ \E k \in Keys, v \in Values : CallInsert(Inserter, k, v)
    \/ \E k \in Keys : CallErase(Inserter, k)
    \/ \E n \in 1..MaxCap : CallReserve(Clearer, n)
    \/ CallClear(Clearer)
    \/ \E t \in Readers, k \in Keys : CallContains(t, k)
    \/ \E t \in Readers, k \in Keys : CallGet(t, k)
    \/ \E t \in Threads : Step(t)
    \/ \E t \in Threads : StepMutate(t)
    \/ Abort

SpecMutators == Init /\ [][NextMutators]_vars

\* One writer inserts, the reader calls find and get.
NextFind ==
    \/ \E k \in Keys, v \in Values : CallInsert(Inserter, k, v)
    \/ \E t \in Readers, v \in Values : CallFind(t, v)
    \/ \E t \in Readers, k \in Keys : CallGet(t, k)
    \/ \E t \in Threads : Step(t)
    \/ \E t \in Threads : StepFind(t)
    \/ Abort

SpecFind == Init /\ [][NextFind]_vars

\* The scheduler lets every thread that can take a step of its call take one.
SpecFindFair ==
    /\ Init
    /\ [][NextFind]_vars
    /\ \A t \in Threads : WF_vars(Step(t) \/ StepFind(t))

\* Every member function is called: one writer adds and erases its keys, the
\* other one reserves and clears, the reader looks up and searches.
NextAllCalls ==
    \/ \E k \in OwnKeys(Inserter) : CallInsert(Inserter, k, MaxVal)
    \/ \E k \in OwnKeys(Inserter) : CallEmplace(Inserter, k, MaxVal)
    \/ \E k \in OwnKeys(Inserter) : CallIndex(Inserter, k)
    \/ \E k \in OwnKeys(Inserter) : CallErase(Inserter, k)
    \/ CallReserve(Clearer, MaxCap)
    \/ CallClear(Clearer)
    \/ \E t \in Readers, k \in OwnKeys(Inserter) : CallContains(t, k)
    \/ \E t \in Readers, k \in OwnKeys(Inserter) : CallGet(t, k)
    \/ \E t \in Readers : CallFind(t, MaxVal)
    \/ \E t \in Threads : Step(t)
    \/ \E t \in Threads : StepMutate(t)
    \/ \E t \in Threads : StepFind(t)
    \/ Abort

SpecAllCalls == Init /\ [][NextAllCalls]_vars

\* No thread has called anything yet: the container is still filled by one
\* caller, one call after the other.
Quiet == \A t \in Threads : thr[t].pc = "idle" /\ thr[t].calls = 0

\* The steps of contains and get.
StepLookup(t) ==
    \/ ContainsAcquire(t)
    \/ ContainsBody(t)
    \/ RefAcquire(t)
    \/ RefBody(t)

\* The key thread t asks for: a different one for each thread.
KeyOf(t) == CHOOSE k \in Keys : k = t - 1

\* The container is filled, then every thread calls get on its own key, once
\* the key is contained; nobody inserts, erases, reserves or clears meanwhile.
NextGetters ==
    \/ \E k \in Keys, v \in Values : Quiet /\ Insert(k, v)
    \/ \E t \in Threads : containsConst(Cur, KeyOf(t)) /\ CallGet(t, KeyOf(t))
    \/ \E t \in Threads : StepLookup(t)

SpecGetters == Init /\ [][NextGetters]_vars

\* The key the concurrent calls are about; it is contained before the first
\* concurrent call.  Under SpecKept no thread inserts or erases it; under
\* SpecEraseSame it is the key both writers erase.
KeptKey == CHOOSE k \in Keys : k # DefaultKey

\* The container is filled; then one writer inserts and erases the other keys
\* while the reader calls contains and get on the kept key.
NextKept ==
    \/ \E k \in Keys, v \in Values : Quiet /\ Insert(k, v)
    \/ \E k \in Keys \ {KeptKey}, v \in Values :
            containsConst(Cur, KeptKey) /\ CallInsert(Inserter, k, v)
    \/ \E k \in Keys \ {KeptKey} :
            containsConst(Cur, KeptKey) /\ CallErase(Inserter, k)
    \/ \E t \in Readers : containsConst(Cur, KeptKey) /\ CallContains(t, KeptKey)
    \/ \E t \in Readers : containsConst(Cur, KeptKey) /\ CallGet(t, KeptKey)
    \/ \E t \in Threads : Step(t)
    \/ \E t \in Threads : StepErase(t)
    \/ Abort

SpecKept == Init /\ [][NextKept]_vars

\* The container is filled; then each writer calls erase once, on the same
\* contained key.
NextEraseSame ==
    \/ \E k \in Keys, v \in Values : Quiet /\ Insert(k, v)
    \/ \E t \in Writers :
        /\ thr[t].calls = 0
        /\ containsConst(Cur, KeptKey)
        /\ CallErase(t, KeptKey)
    \/ \E t \in Writers : ContainsAcquire(t)
    \/ \E t \in Writers : ContainsBody(t)
    \/ \E t \in Writers : StepErase(t)
    \/ Abort

SpecEraseSame == Init /\ [][NextEraseSame]_vars

\* The writers add the same key, absent at first.
SameKey == CHOOSE k \in Keys : k # DefaultKey

NextSameKey ==
    \/ \E t \in Writers, v \in Values : CallInsert(t, SameKey, v)
    \/ \E t \in Writers, a \in Values : CallEmplace(t, SameKey, a)
    \/ \E t \in Writers : CallIndex(t, SameKey)
    \/ \E t \in Writers : Step(t)
    \/ Abort

SpecSameKey == Init /\ [][NextSameKey]_vars

----------------------------------------------------------------------------
\* Registry: one action per call.

\* The handles of the entities that are alive.
Alive == {h \in DOMAIN m_entities : m_entities[h].alive}

\* The entities below h in the hierarchy, down to depth n.
RECURSIVE below(_, _, _)
below(R, h, n) ==
    IF n = 0 THEN {}
    ELSE R.ent[h].children \cup UNION {below(R, k, n - 1) : k \in R.ent[h].children}

descendants(R, h) == below(R, h, MaxEntityId)

\* The orders in which the children sets that destroyEntity(target) iterates
\* may come: the arrangements of the entities below target.
OrdersOf(R, target) ==
    LET visited == descendants(R, target)
    IN  {o \in [1..Cardinality(visited) -> visited] :
            \A i, j \in DOMAIN o : i # j => o[i] # o[j]}

CreateEntity(parent) ==
    LET r == createEntity(CurRegistry, parent)
    IN  /\ r.id <= MaxEntityId
        /\ BecomeRegistry(r.R)
        /\ last' = [op |-> "createEntity", ok |-> TRUE]
        /\ UNCHANGED <<container, shadow, threads, operation>>

\* ok = FALSE stands for the std::out_of_range a dead handle ends in; last
\* also keeps the flag, the number of children target had and the number of
\* ids the call queued.
DestroyEntity(target, recurse) ==
    \E ord \in OrdersOf(CurRegistry, target) :
        LET after == destroyEntity(CurRegistry, target, recurse, ord)
        IN  /\ BecomeRegistry(after)
            /\ last' = [op |-> "destroyEntity", ok |-> m_entities[target].alive,
                        recurse |-> recurse,
                        kids |-> Cardinality(m_entities[target].children),
                        freed |-> Len(after.rec) - Len(m_recyclableEntities)]
            /\ UNCHANGED <<container, shadow, threads, operation>>

CreateComponent(target, type) ==
    /\ BecomeRegistry(createComponent(CurRegistry, target, type))
    /\ last' = [op |-> "createComponent", ok |-> TRUE]
    /\ UNCHANGED <<container, shadow, threads, operation>>

\* The callers create entities under the world, under another live entity
\* or under no parent, add components to live entities, and destroy any
\* entity but the world, with handles that may be dead already.
NextRegistry ==
    \/ \E parent \in Alive \cup {nullEntity} : CreateEntity(parent)
    \/ \E target \in DOMAIN m_entities \ {world}, recurse \in BOOLEAN :
            DestroyEntity(target, recurse)
    \/ \E target \in Alive, type \in ComponentTypes : CreateComponent(target, type)

SpecRegistry == Init /\ [][NextRegistry]_vars

----------------------------------------------------------------------------
\* Properties of single-threaded use (specification Spec).

Live == DOMAIN shadow

\* The value get(key) loads: the one held by the cell it returns.
getLoad(c, k) == load(get(c, k).c.dv, get(c, k).pos)

\* C1: every key that was added and not erased or cleared since has a sparse
\* entry below m_size that points at the dense slot holding the key, so no two
\* such keys share a dense index.
C1_LiveKeysIndexed ==
    /\ \A k \in Live :
        /\ k \in DOMAIN m_sparse
        /\ m_sparse[k] < m_size
        /\ At(m_dense_key, m_sparse[k]) = k
    /\ \A k1, k2 \in Live : k1 # k2 => m_sparse[k1] # m_sparse[k2]

\* An erase has relocated a key and two keys are still live.
C1_Witness ==
    /\ last = [op |-> "erase", ok |-> TRUE]
    /\ Cardinality(Live) >= 2
    /\ \E j \in 0..(m_size - 1) : At(m_dense_key, j) = At(m_dense_key, m_size)

\* C2: m_size <= m_capacity <= length(m_dense_key) = length(m_dense_value).
C2_SizeCapacityLengths ==
    /\ m_size <= m_capacity
    /\ m_capacity <= Len(m_dense_key)
    /\ Len(m_dense_key) = Len(m_dense_value)

\* An insert has filled the container up to a capacity it had to grow to.
C2_Witness ==
    /\ last = [op |-> "insert", ok |-> TRUE]
    /\ m_size = m_capacity
    /\ m_size = 3

\* C5: insert(k, v2) on a container that contains k returns (end(), false)
\* and leaves every field as it was, so get(k) still loads the stored value.
C5_InsertExistingNoChange ==
    \A k \in Keys, v2 \in Values :
        (containsValue(Cur, k) \/ k \in Live) =>
            /\ insert(Cur, k, v2) = [c |-> Cur, pos |-> m_size, ok |-> FALSE]
            /\ getLoad(insert(Cur, k, v2).c, k) = shadow[k]

\* An insert was refused for a key whose stored value differs from some value.
C5_Witness ==
    /\ last = [op |-> "insert", ok |-> FALSE]
    /\ \E k \in Live : shadow[k] = 1

\* C6: insert(k, v) of a key that is not contained returns inserted == true
\* and get(k) then loads v; get(k) goes on loading the value stored for k last
\* for as long as k has not been erased or cleared.
C6_InsertThenGet ==
    /\ \A k \in Keys, v \in Values :
        ~containsValue(Cur, k) =>
            /\ insert(Cur, k, v).ok
            /\ get(insert(Cur, k, v).c, k).ok
            /\ getLoad(insert(Cur, k, v).c, k) = v
    /\ \A k \in Live : get(Cur, k).ok /\ getLoad(Cur, k) = shadow[k]

\* A key inserted with a non-default value has since been relocated by the
\* erase of another key.
C6_Witness ==
    /\ last = [op |-> "erase", ok |-> TRUE]
    /\ \E k \in Live :
        /\ shadow[k] = 1
        /\ m_sparse[k] < m_size
        /\ At(m_dense_key, m_size) = k

\* C7: erase(k1) on a container that contains k1 returns true, takes exactly 1
\* off size(), makes contains(k1) false and leaves every other contained key
\* contained, get loading the same value as before.
C7_EraseCorrect ==
    \A k1 \in Keys :
        containsValue(Cur, k1) =>
            LET r == erase(Cur, k1)
            IN  /\ r.ok
                /\ size(r.c) = size(Cur) - 1
                /\ ~containsValue(r.c, k1)
                /\ ~containsConst(r.c, k1)
                /\ \A k2 \in Keys \ {k1} :
                    containsValue(Cur, k2) =>
                        /\ containsValue(r.c, k2)
                        /\ getLoad(r.c, k2) = getLoad(Cur, k2)

\* An erase succeeded and left keys behind, one of them with a non-default value.
C7_Witness ==
    /\ last = [op |-> "erase", ok |-> TRUE]
    /\ m_size >= 1
    /\ \E k \in Live : containsConst(Cur, k) /\ shadow[k] = 1

\* C8: erase(k) of a key at a dense index i < m_size - 1 puts the key L and the
\* value of index m_size - 1 at index i, sets m_sparse[L] = i, get(L) loads
\* L's value, and no other slot of [0, new size) changes.
C8_EraseSwapWithLast ==
    \A k \in Keys :
        (containsValue(Cur, k) /\ m_sparse[k] < m_size - 1) =>
            LET r == erase(Cur, k)
                i == m_sparse[k]
                L == At(m_dense_key, m_size - 1)
                vL == load(m_dense_value, m_size - 1)
            IN  /\ At(r.c.dk, i) = L
                /\ load(r.c.dv, i) = vL
                /\ r.c.sp[L] = i
                /\ get(r.c, L).ok
                /\ get(r.c, L).pos = i
                /\ getLoad(r.c, L) = vL
                /\ \A j \in 0..(r.c.size - 1) \ {i} :
                    /\ At(r.c.dk, j) = At(m_dense_key, j)
                    /\ load(r.c.dv, j) = load(m_dense_value, j)

\* An erase has moved the last entry into a freed slot below another live slot.
C8_Witness ==
    /\ last = [op |-> "erase", ok |-> TRUE]
    /\ m_size >= 2
    /\ \E j \in 0..(m_size - 2) : At(m_dense_key, j) = At(m_dense_key, m_size)

\* C9: a clear() step ends with size() == 0 and empty(), contains(k) false
\* for every key, and capacity() and both array lengths as before the step.
C9_ClearLogical ==
    [][Clear =>
        /\ size(Cur') = 0
        /\ empty(Cur')
        /\ \A k \in Keys : ~containsValue(Cur', k) /\ ~containsConst(Cur', k)
        /\ capacity(Cur') = capacity(Cur)
        /\ Len(m_dense_key') = Len(m_dense_key)
        /\ Len(m_dense_value') = Len(m_dense_value)]_vars

\* clear() has run on a container that held all three keys.
C9_Witness ==
    /\ last = [op |-> "clear", ok |-> TRUE]
    /\ m_capacity >= 3
    /\ \A k \in Keys : k \in DOMAIN m_sparse
    /\ \E k \in Keys : m_sparse[k] = 2

\* C10: a key that was erased or cleared stays out: while it has not been
\* inserted again, contains(k) is false and get(k) signals out-of-range,
\* whatever its stale sparse entry and the reused dense slots hold.
C10_StaleNeverResurrects ==
    \A k \in DOMAIN m_sparse \ Live :
        /\ ~containsValue(Cur, k)
        /\ ~containsConst(Cur, k)
        /\ ~get(Cur, k).ok
        /\ ~getConst(Cur, k).ok

\* A removed key's stale sparse entry points at a slot that later inserts of
\* other keys have taken again.
C10_Witness ==
    /\ last = [op |-> "insert", ok |-> TRUE]
    /\ \E k \in DOMAIN m_sparse \ Live : m_sparse[k] >= 1 /\ m_sparse[k] < m_size


\* The fields a caller can observe through the cells of [0, size): the live
\* slots of both dense arrays.
liveSlots(c) == [i \in 1..c.size |-> <<c.dk[i], c.dv[i]>>]

\* C11: no call makes capacity() or a dense array shorter: whichever of
\* insert, emplace, operator[], erase, clear and reserve is called next, with
\* whatever arguments, m_capacity and both array lengths after the call are
\* greater than or equal to those before it.
C11_CapacityNeverDecreases ==
    LET after == {insert(Cur, k, v).c : k \in Keys, v \in Values}
                 \cup {emplace(Cur, k, a).c : k \in Keys, a \in Values}
                 \cup {index(Cur, k).c : k \in Keys}
                 \cup {erase(Cur, k).c : k \in Keys}
                 \cup {clear(Cur)}
                 \cup {reserve(Cur, n) : n \in 0..(m_capacity + 1)}
    IN  \A d \in after :
            /\ capacity(d) >= capacity(Cur)
            /\ Len(d.dk) >= Len(m_dense_key)
            /\ Len(d.dv) >= Len(m_dense_value)

\* reserve has been called with a size that the capacity, grown by inserts,
\* had already passed.
C11_Witness ==
    /\ last = [op |-> "reserve", ok |-> TRUE]
    /\ m_capacity = Cardinality(Keys)
    /\ m_size = m_capacity

\* C15: get(k), get(k) const and operator[](k) const on a key that is not
\* contained signal std::out_of_range, and size(), capacity(), the dense arrays
\* and contains() of every key are after the call what they were before.
C15_GetAbsentThrows ==
    \A k \in Keys :
        ~containsValue(Cur, k) =>
            \A r \in {get(Cur, k), getConst(Cur, k), indexConst(Cur, k)} :
                /\ ~r.ok
                /\ size(r.c) = size(Cur)
                /\ capacity(r.c) = capacity(Cur)
                /\ r.c.dk = m_dense_key
                /\ r.c.dv = m_dense_value
                /\ \A k2 \in Keys :
                    /\ containsValue(r.c, k2) = containsValue(Cur, k2)
                    /\ containsConst(r.c, k2) = containsConst(Cur, k2)

\* get has signalled std::out_of_range on a container that holds entries.
C15_Witness ==
    /\ last = [op |-> "get", ok |-> FALSE]
    /\ m_size >= 1
    /\ \E k \in DOMAIN m_sparse \ Live : m_sparse[k] = 0

\* C16: operator[](k) on a key that is absent appends an entry holding a
\* default-constructed value (size() one more, contains(k) true) and returns
\* that entry's cell; on a key that is present it returns the key's cell and
\* leaves size(), capacity() and every stored value as they were.
C16_IndexNeverFails ==
    \A k \in Keys :
        LET r == index(Cur, k)
        IN  IF ~containsValue(Cur, k)
            THEN /\ r.ok
                 /\ size(r.c) = size(Cur) + 1
                 /\ containsValue(r.c, k) /\ containsConst(r.c, k)
                 /\ r.pos = size(Cur)
                 /\ At(r.c.dk, r.pos) = k
                 /\ load(r.c.dv, r.pos) = DefaultValue
                 /\ get(r.c, k).pos = r.pos
            ELSE /\ ~r.ok
                 /\ r.pos = m_sparse[k]
                 /\ At(m_dense_key, r.pos) = k
                 /\ size(r.c) = size(Cur)
                 /\ capacity(r.c) = capacity(Cur)
                 /\ r.c.dv = m_dense_value
                 /\ r.c.dk = m_dense_key

\* operator[] has returned the cell of a key that holds a non-default value.
C16_Witness ==
    /\ last = [op |-> "index", ok |-> FALSE]
    /\ \A k \in Live : shadow[k] # DefaultValue
    /\ Live # {}

\* C17: erase(k) of a key that is not contained returns false and leaves
\* size(), capacity(), the dense arrays and contains() of every key alone; a
\* second erase(k) right after a first one returns false and changes nothing.
C17_EraseAbsentNoOp ==
    \A k \in Keys :
        LET r == erase(Cur, k)
            r2 == erase(r.c, k)
        IN  /\ k \notin Live =>
                /\ ~r.ok
                /\ size(r.c) = size(Cur)
                /\ capacity(r.c) = capacity(Cur)
                /\ r.c.dk = m_dense_key
                /\ r.c.dv = m_dense_value
                /\ \A k2 \in Keys :
                    /\ containsValue(r.c, k2) = containsValue(Cur, k2)
                    /\ containsConst(r.c, k2) = containsConst(Cur, k2)
            /\ ~r2.ok
            /\ r2.c = r.c

\* erase has returned false on a container that holds entries and a stale
\* sparse entry below m_size.
C17_Witness ==
    /\ last = [op |-> "erase", ok |-> FALSE]
    /\ m_size >= 1
    /\ \E k \in DOMAIN m_sparse \ Live : m_sparse[k] < m_size

\* C18: reserve(n) with n > capacity() makes capacity() and both array
\* lengths n, reserve(n) with n <= capacity() changes nothing; either way
\* size(), the keys and values of the slots [0, size) and the sparse table are
\* as before.
C18_ReserveFrame ==
    \A n \in 0..(m_capacity + 1) :
        LET d == reserve(Cur, n)
        IN  /\ n > capacity(Cur) =>
                capacity(d) = n /\ Len(d.dk) = n /\ Len(d.dv) = n
            /\ n <= capacity(Cur) => d = Cur
            /\ size(d) = size(Cur)
            /\ liveSlots(d) = liveSlots(Cur)
            /\ d.sp = m_sparse

\* reserve has run on a container that holds an entry with a non-default
\* value and has room left.
C18_Witness ==
    /\ last = [op |-> "reserve", ok |-> TRUE]
    /\ m_size >= 1
    /\ m_size < m_capacity
    /\ \E k \in Live : shadow[k] # DefaultValue

\* C19: find(val) returns the lowest dense index below m_size whose cell
\* holds val, and end() when no such index exists, whatever the slots from
\* m_size on hold.
C19_FindLowestLive ==
    \A v \in Values :
        LET hits == {i \in 0..(m_size - 1) : load(m_dense_value, i) = v}
            p == find(Cur, v)
        IN  /\ hits = {} => p = end(Cur)
            /\ hits # {} => p \in hits /\ \A j \in hits : p <= j

\* find has returned end() for a value that only a stale slot holds.
C19_Witness ==
    /\ last = [op |-> "find", ok |-> FALSE]
    /\ m_size >= 1
    /\ \A i \in 0..(m_size - 1) : load(m_dense_value, i) = DefaultValue
    /\ \E i \in m_size..(Len(m_dense_value) - 1) : load(m_dense_value, i) # DefaultValue

\* The number of elements of a sequence, and of keys of a map, holding v.
occurrences(s, v) == Cardinality({i \in DOMAIN s : s[i] = v})

\* C20: iterating from begin() to end() visits size() cells, and each value is
\* visited as many times as there are contained keys holding it.
C20_IterationVisitsLive ==
    /\ Len(iterate(Cur)) = size(Cur)
    /\ Cardinality(Live) = size(Cur)
    /\ \A v \in Values : occurrences(iterate(Cur), v) = occurrences(shadow, v)

\* Three keys were inserted and one erased: two cells with different values
\* are left to visit.
C20_Witness ==
    /\ last = [op |-> "erase", ok |-> TRUE]
    /\ m_size = 2
    /\ Len(m_dense_value) = 3
    /\ load(m_dense_value, 0) # load(m_dense_value, 1)

\* C14: m_sparse has entries only for keys that were added: a key gets its
\* sparse entry in a step that adds the key (a successful insert, emplace or
\* operator[]), never in a contains, get, refused insert or erase.
C14_SparseOnlyAdded ==
    [][\A k \in Keys :
        (k \in DOMAIN m_sparse' /\ k \notin DOMAIN m_sparse) =>
            (k \in DOMAIN shadow' /\ k \notin DOMAIN shadow)]_vars

\* The abstract map: insert and emplace add only a key that is absent,
\* operator[] adds a default value for one, erase removes, clear empties.
absInsert(M, k, v) ==
    IF k \in DOMAIN M THEN [m |-> M, ok |-> FALSE]
    ELSE [m |-> (k :> v) @@ M, ok |-> TRUE]

absErase(M, k) ==
    IF k \in DOMAIN M THEN [m |-> Without(M, k), ok |-> TRUE]
    ELSE [m |-> M, ok |-> FALSE]

\* Container c agrees with the abstract map M.
agrees(c, M) ==
    /\ size(c) = Cardinality(DOMAIN M)
    /\ \A k \in Keys :
        /\ containsValue(c, k) = (k \in DOMAIN M)
        /\ containsConst(c, k) = (k \in DOMAIN M)
        /\ k \in DOMAIN M => get(c, k).ok /\ getLoad(c, k) = M[k]

\* C26: the container agrees with the abstract map kept beside it, and
\* whichever call is made next, its inserted flag or erase result is the
\* abstract map's and the container after it agrees with the abstract map
\* after it.
C26_RefinesAbstractMap ==
    /\ agrees(Cur, shadow)
    /\ \A k \in Keys :
        /\ \A v \in Values :
            /\ insert(Cur, k, v).ok = absInsert(shadow, k, v).ok
            /\ agrees(insert(Cur, k, v).c, absInsert(shadow, k, v).m)
            /\ emplace(Cur, k, v).ok = absInsert(shadow, k, construct(v)).ok
            /\ agrees(emplace(Cur, k, v).c, absInsert(shadow, k, construct(v)).m)
        /\ index(Cur, k).ok = absInsert(shadow, k, DefaultValue).ok
        /\ agrees(index(Cur, k).c, absInsert(shadow, k, DefaultValue).m)
        /\ erase(Cur, k).ok = absErase(shadow, k).ok
        /\ agrees(erase(Cur, k).c, absErase(shadow, k).m)
    /\ agrees(clear(Cur), <<>>)
    /\ \A n \in 0..(m_capacity + 1) : agrees(reserve(Cur, n), shadow)

\* An erase has left a stale sparse entry that points at a slot now held by
\* another key.
C26_Witness ==
    /\ last = [op |-> "erase", ok |-> TRUE]
    /\ \E k \in DOMAIN m_sparse \ Live :
        /\ m_sparse[k] < m_size
        /\ shadow[At(m_dense_key, m_sparse[k])] # DefaultValue

\* C27: emplace(k, a) returns what insert(k, value_type(a)) returns and leaves
\* the container it leaves; on a contained key it returns (end(), false) and
\* the key's stored value stays.
C27_EmplaceLikeInsert ==
    \A k \in Keys, a \in Values :
        /\ emplace(Cur, k, a) = insert(Cur, k, construct(a))
        /\ containsValue(Cur, k) =>
            /\ ~emplace(Cur, k, a).ok
            /\ emplace(Cur, k, a).pos = end(Cur)
            /\ emplace(Cur, k, a).c.dv = m_dense_value
            /\ getLoad(emplace(Cur, k, a).c, k) = getLoad(Cur, k)

\* emplace was refused on a container that holds two keys with different values.
C27_Witness ==
    /\ last = [op |-> "emplace", ok |-> FALSE]
    /\ \E k1, k2 \in Live : shadow[k1] # shadow[k2]

\* The keys of the slots [0, size).
liveKeys(c) == [i \in 1..c.size |-> c.dk[i]]

\* The sequences of distinct keys ...
distinctRuns ==
    {ks \in UNION {[1..n -> Keys] : n \in 0..Cardinality(Keys)} :
        \A i, j \in DOMAIN ks : i # j => ks[i] # ks[j]}

\* ... and those among them of keys that container c does not contain.
absentRuns(c) ==
    {ks \in distinctRuns : \A i \in DOMAIN ks : ~containsValue(c, ks[i])}

\* C28: insert(k, v) of an absent key into a container of size s returns
\* (position s, true), puts k and v at dense index s and s into m_sparse[k],
\* and changes no slot below s; so a run of inserts leaves the keys, after
\* those that were there, in the order they were inserted.
C28_InsertAppends ==
    /\ \A k \in Keys, v \in Values :
        ~containsValue(Cur, k) =>
            LET r == insert(Cur, k, v)
                s == size(Cur)
            IN  /\ r.ok
                /\ r.pos = s
                /\ size(r.c) = s + 1
                /\ At(r.c.dk, s) = k
                /\ load(r.c.dv, s) = v
                /\ r.c.sp[k] = s
                /\ SubSeq(liveSlots(r.c), 1, s) = liveSlots(Cur)
    /\ \A ks \in absentRuns(Cur) :
        liveKeys(insertAll(Cur, ks, DefaultValue)) = liveKeys(Cur) \o ks

\* Three keys were inserted, not in the order of their values, and fill the
\* container.
C28_Witness ==
    /\ last = [op |-> "insert", ok |-> TRUE]
    /\ liveKeys(Cur) = liveKeys(insertAll(fresh, liveKeys(Cur), DefaultValue))
    /\ m_size = Cardinality(Keys)
    /\ At(m_dense_key, 0) > At(m_dense_key, 1)

\* C33 (specification Spec): the non-const contains (operator[] of m_sparse,
\* which adds an entry) and the const contains (count and at) return the same
\* boolean for every key in every state: keys never inserted, keys erased,
\* keys left stale by clear() included.
C33_ContainsOverloadsAgree ==
    \A k \in Keys : containsValue(Cur, k) = containsConst(Cur, k)

\* One key is contained, one has a stale entry in m_sparse, one has no entry,
\* and the const overload has just been called.
C33_Witness ==
    /\ last.op = "containsConst"
    /\ \E k \in Keys : containsConst(Cur, k)
    /\ \E k \in DOMAIN m_sparse : ~containsConst(Cur, k) /\ m_sparse[k] < m_size
    /\ \E k \in Keys : k \notin DOMAIN m_sparse


\* N absent keys inserted into a fresh container bring its capacity to N.
freshCapacities ==
    \A ks \in distinctRuns : capacity(insertAll(fresh, ks, DefaultValue)) = Len(ks)

\* C34 (specification Spec): insert, emplace and the mutable operator[]
\* change capacity() only when size() == capacity() before the call and the
\* key is absent, and then to the old size() + 1; so inserting N absent keys
\* into a fresh container gives capacity() == N, and inserts after clear()
\* leave capacity() alone as long as they fit.
C34_GrowthByOne ==
    /\ \A k \in Keys, v \in Values :
        LET grown == IF size(Cur) = capacity(Cur) /\ ~containsConst(Cur, k)
                     THEN size(Cur) + 1
                     ELSE capacity(Cur)
        IN  /\ capacity(insert(Cur, k, v).c) = grown
            /\ capacity(emplace(Cur, k, v).c) = grown
            /\ v = DefaultValue => capacity(index(Cur, k).c) = grown
    /\ freshCapacities
    /\ \A ks \in absentRuns(clear(Cur)) :
        Len(ks) <= capacity(Cur) =>
            capacity(insertAll(clear(Cur), ks, DefaultValue)) = capacity(Cur)

\* An insert has just filled the container to its capacity, which is what
\* two insertions bring it to, and an earlier entry of m_sparse is stale.
C34_Witness ==
    /\ last = [op |-> "insert", ok |-> TRUE]
    /\ m_size = 2
    /\ m_capacity = m_size
    /\ \E k \in DOMAIN m_sparse : ~containsConst(Cur, k)



----------------------------------------------------------------------------
\* async_operation: the worker's calls and the steps of then.

\* The worker reports progress, a step or all of it at once.
AdvanceProgress(n) ==
    /\ m_progress.m_progress + n <= ProgressSize
    /\ m_progress' = advance_progress(m_progress, n)
    /\ UNCHANGED <<container, last, shadow, threads, registry, waiter>>

Complete ==
    /\ ~is_done(m_progress)
    /\ m_progress' = complete(m_progress)
    /\ UNCHANGED <<container, last, shadow, threads, registry, waiter>>

\* then(args...) waits with wait_priority_normal, then(priority, args...)
\* with the priority given.
CallThen(t, priority) ==
    /\ waiter[t].pc = "idle"
    /\ waiter[t].ran < MaxThen
    /\ waiter' = [waiter EXCEPT ![t] =
                    [@ EXCEPT !.pc = "w_test", !.priority = priority, !.done = FALSE]]
    /\ UNCHANGED <<container, last, shadow, threads, registry, m_progress>>

\* wait: the loop condition; the loop is left, and wait returns, when it is
\* false.
WaitTest(t) ==
    /\ waiter[t].pc = "w_test"
    /\ waiter' = [waiter EXCEPT ![t] =
                    [@ EXCEPT !.pc = IF waits(m_progress) THEN "w_switch" ELSE "invoke",
                              !.done = is_done(m_progress)]]
    /\ UNCHANGED <<container, last, shadow, threads, registry, m_progress>>

\* wait: switch (priority): sleep_for, yield or the pause instruction.
WaitSleep(t) ==
    /\ waiter[t].pc = "w_switch"
    /\ waiter[t].priority = "sleep"
    /\ waiter' = [waiter EXCEPT ![t].pc = "w_test"]
    /\ UNCHANGED <<container, last, shadow, threads, registry, m_progress>>

WaitYield(t) ==
    /\ waiter[t].pc = "w_switch"
    /\ waiter[t].priority = "normal"
    /\ waiter' = [waiter EXCEPT ![t].pc = "w_test"]
    /\ UNCHANGED <<container, last, shadow, threads, registry, m_progress>>

WaitPause(t) ==
    /\ waiter[t].pc = "w_switch"
    /\ waiter[t].priority = "real_time"
    /\ waiter' = [waiter EXCEPT ![t].pc = "w_test"]
    /\ UNCHANGED <<container, last, shadow, threads, registry, m_progress>>

\* then: return m_repeater(args...);
Invoke(t) ==
    /\ waiter[t].pc = "invoke"
    /\ waiter' = [waiter EXCEPT ![t] = [@ EXCEPT !.pc = "idle", !.ran = @ + 1]]
    /\ UNCHANGED <<container, last, shadow, threads, registry, m_progress>>

NextOperation ==
    \/ \E n \in 1..ProgressSize : AdvanceProgress(n)
    \/ Complete
    \/ \E t \in Waiters, priority \in Priorities : CallThen(t, priority)
    \/ \E t \in Waiters : WaitTest(t)
    \/ \E t \in Waiters : WaitSleep(t)
    \/ \E t \in Waiters : WaitYield(t)
    \/ \E t \in Waiters : WaitPause(t)
    \/ \E t \in Waiters : Invoke(t)

SpecOperation == Init /\ [][NextOperation]_vars


----------------------------------------------------------------------------
\* Properties of the Registry (specification SpecRegistry).

\* C35: no two alive entities have the same id, no id waiting in
\* m_recyclableEntities is the id of an alive entity, and the id handed out
\* next is the oldest one queued, a fresh one from m_nextEntityId only if the
\* queue is empty, and never the id of an entity that is alive.
C35_IdsUniqueAndRecycled ==
    LET R == CurRegistry
        g == getNextEntityId(R)
        aliveIds == {m_entities[h].id : h \in Alive}
    IN  /\ \A a, b \in Alive : a # b => m_entities[a].id # m_entities[b].id
        /\ \A i \in DOMAIN m_recyclableEntities : m_recyclableEntities[i] \notin aliveIds
        /\ g.id \notin aliveIds
        /\ g.id \notin Alive
        /\ IF m_recyclableEntities = <<>>
           THEN g.id = m_nextEntityId /\ g.R.next = m_nextEntityId + 1
           ELSE /\ g.id = Head(m_recyclableEntities)
                /\ g.R.rec = Tail(m_recyclableEntities)
                /\ g.R.next = m_nextEntityId

\* Every id has been handed out, three of them were queued, and createEntity
\* has just taken one of them back into use.
C35_Witness ==
    /\ last.op = "createEntity"
    /\ m_nextEntityId = MaxEntityId + 1
    /\ Len(m_recyclableEntities) = MaxEntityId - 2
    /\ Cardinality(Alive) = 2


\* What the entity at handle h was before the call is gone after it.
destroyed(R, h) ==
    /\ ~R.ent[h].alive
    /\ ~R.ent[h].active
    /\ R.ent[h].id = invalid_id
    /\ R.ent[h].parent = nullEntity
    /\ R.ent[h].children = {}

\* How often id x occurs in queue q.
pushes(q, x) == Cardinality({i \in DOMAIN q : q[i] = x})

\* C36: after destroyEntity(target, true) on a live entity, target and every
\* descendant are dead and inactive, have id invalid_id, no parent, no
\* children and an empty composition; target has left its former parent's
\* children; and each of their ids was pushed to the recycle queue once.
C36_DestroyRecursive ==
    \A target \in Alive \ {world} :
        \A ord \in OrdersOf(CurRegistry, target) :
            LET R == CurRegistry
                gone == {target} \cup descendants(R, target)
                after == destroyEntity(R, target, TRUE, ord)
            IN  /\ \A h \in gone :
                    /\ destroyed(after, h)
                    /\ after.comp[R.ent[h].id] = {}
                    /\ pushes(after.rec, R.ent[h].id) = pushes(R.rec, R.ent[h].id) + 1
                    /\ pushes(after.rec, R.ent[h].id) = 1
                /\ Len(after.rec) = Len(R.rec) + Cardinality(gone)
                /\ valid(R, R.ent[target].parent) =>
                        target \notin after.ent[R.ent[target].parent].children

\* An entity with a child and a grandchild has just been destroyed with
\* recurse = true: three ids were queued by the one call.
C36_Witness ==
    /\ last.op = "destroyEntity"
    /\ last.ok
    /\ last.recurse
    /\ last.kids = 1
    /\ last.freed = 3


----------------------------------------------------------------------------
\* Properties of async_operation (specification SpecOperation).

\* C38: then invokes m_repeater only after its wait has seen is_done() true:
\* wait returns only from a test that finds the progress done, goes round
\* the loop (sleep, yield or pause) from every test that finds it not done,
\* and the continuation runs only with the progress done.
C38_ThenWaitsForDone ==
    [][\A t \in Waiters :
        /\ waiter'[t].ran > waiter[t].ran =>
                waiter[t].pc = "invoke" /\ waiter[t].done /\ is_done(m_progress)
        /\ (waiter[t].pc = "w_test" /\ waiter'[t].pc = "invoke") => is_done(m_progress)
        /\ (waiter[t].pc = "w_test" /\ ~is_done(m_progress) /\ waiter'[t] # waiter[t]) =>
                waiter'[t].pc = "w_switch"
        /\ waiter'[t].pc = "invoke" => waiter'[t].done]_vars

\* A thread has gone round the loop while the progress was not done and has
\* run the continuation after the worker completed it.
C38_Witness ==
    \E t, u \in Waiters :
        /\ waiter[t].ran = 1
        /\ waiter[t].pc = "idle"
        /\ waiter[t].done
        /\ waiter[u].pc = "invoke"
        /\ waiter[u].priority = "sleep"
        /\ t # u


----------------------------------------------------------------------------
\* Properties of concurrent use.

Min(a, b) == IF a <= b THEN a ELSE b

\* The dense indices below m_size, as far as m_dense_key reaches, that hold k.
SlotsOf(k) == {i \in 0..(Min(m_size, Len(m_dense_key)) - 1) : At(m_dense_key, i) = k}

\* C3 (specification SpecInserts): with writers inserting keys of their own
\* and a reader alongside, every state has m_size <= m_capacity, both dense
\* arrays at least m_capacity long, and every live key's sparse entry pointing
\* at the dense slot that holds the key.
C3_ConcurrentInsertInvariant ==
    /\ m_size <= m_capacity
    /\ Len(m_dense_key) >= m_capacity
    /\ Len(m_dense_value) >= m_capacity
    /\ \A k \in Live :
        /\ k \in DOMAIN m_sparse
        /\ m_sparse[k] < Len(m_dense_key)
        /\ At(m_dense_key, m_sparse[k]) = k

\* C4 (specification SpecSameKey): with the writers adding the same absent
\* key by insert, emplace or operator[], the key is at no more than one index
\* of m_dense_key[0, m_size), m_size grows by exactly 1, and at most one insert
\* or emplace call reports inserted == true.
C4_OneMappingPerKey ==
    /\ Cardinality(SlotsOf(SameKey)) <= 1
    /\ m_size <= 1
    /\ thr[1].nins + thr[2].nins <= 1
    /\ (\A t \in Writers : thr[t].pc = "idle" /\ thr[t].calls > 0) => m_size = 1

\* The steps that write a field of the container on behalf of insert, erase,
\* reserve or clear.
MutationPcs ==
    {"r_body", "a_value", "a_key", "a_sparse", "a_inc",
     "x_value", "x_key", "x_sparse", "x_dec", "cl_store"}

\* C12 (specification SpecMutators): a step in which a field of the container
\* changes is taken while the lock is held exclusively, every writing step of
\* insert, erase, reserve and clear is taken by the thread that holds the lock
\* exclusively, and clear()'s store is not made while another thread is inside
\* a shared or an exclusive section.
C12_MutationsExclusive ==
    [][/\ container' # container => m_container_lock.w # 0
       /\ \A t \in Threads :
            (thr[t].pc \in MutationPcs /\ thr'[t].pc # thr[t].pc /\ thr'[t].pc # "aborted")
                => m_container_lock.w = t
       /\ \A t \in Threads :
            (thr[t].pc = "cl_store" /\ thr'[t].pc = "idle") =>
                /\ m_container_lock.w \in {0, t}
                /\ \A u \in Threads \ {t} : m_container_lock.r[u] = 0]_vars

\* C13 (specification SpecInserts): a step of a thread that calls only
\* contains and get, taken while the thread holds the lock in shared mode,
\* leaves m_sparse, m_dense_key and m_dense_value as they are.
C13_SharedNeverWrites ==
    [][\A t \in Readers :
        (m_container_lock.r[t] > 0 /\ thr'[t] # thr[t]) =>
            UNCHANGED <<m_sparse, m_dense_key, m_dense_value>>]_vars

\* C21 (specification SpecFind): no thread acquires m_container_lock while it
\* holds it: a thread holds at most one shared acquisition, and none while it
\* holds the lock exclusively.
C21_NoNestedAcquisition ==
    \A t \in Threads :
        /\ m_container_lock.r[t] <= 1
        /\ m_container_lock.w = t => m_container_lock.r[t] = 0

\* C22 (specification SpecFindFair): every call that was started returns.
C22_EveryCallReturns ==
    \A t \in Threads :
        [](thr[t].pc \notin {"idle", "aborted"}
            => <>(thr[t].pc \in {"idle", "aborted"}))

\* C23 (specification SpecAllCalls): a thread that is between calls, whether
\* its last call returned normally or signalled std::out_of_range, holds the
\* lock neither shared nor exclusively, and with every thread between calls
\* the lock is free.
C23_LockReleasedOnExit ==
    /\ \A t \in Threads :
        thr[t].pc = "idle" =>
            m_container_lock.r[t] = 0 /\ m_container_lock.w # t
    /\ (\A t \in Threads : thr[t].pc = "idle") =>
            m_container_lock = [w |-> 0, r |-> [t \in Threads |-> 0]]

\* get has signalled std::out_of_range and a call that took the exclusive
\* section has returned.
C23_Witness ==
    /\ \A t \in Threads : thr[t].pc = "idle"
    /\ \E t \in Readers : thr[t].op = "get" /\ ~thr[t].ok
    /\ thr[Inserter].op = "erase" /\ thr[Inserter].ok
    /\ thr[Clearer].calls > 0

\* C24 (specification SpecGetters): with every thread calling get on a
\* contained key of its own and no other call being made, no call signals
\* std::out_of_range, each returns the cell of its key, which holds the key's
\* value, no access races, and no step of a call changes the container.
C24_ConcurrentGets ==
    /\ [](/\ ~ub
          /\ \A t \in Threads :
                (thr[t].pc = "idle" /\ thr[t].calls > 0) =>
                    /\ thr[t].ok
                    /\ thr[t].pos = m_sparse[KeyOf(t)]
                    /\ At(m_dense_key, thr[t].pos) = KeyOf(t)
                    /\ load(m_dense_value, thr[t].pos) = shadow[KeyOf(t)])
    /\ [][~Quiet => UNCHANGED container]_vars

\* All three threads are inside a shared section at once, one of them in its
\* second call, and the keys hold different values.
C24_Witness ==
    /\ \A t \in Threads : thr[t].pc \in {"c_body", "ref_body"}
    /\ \E t \in Threads : thr[t].calls > 1
    /\ \E k1, k2 \in Live : shadow[k1] # shadow[k2]

\* C25 (specification SpecKept): while the writer inserts and erases other
\* keys, every contains(k) and get(k) of the reader on the kept key k returns
\* true, and get returns the slot that holds k and k's value when it returns.
C25_ReadersSeeKeptKey ==
    [][\A t \in Readers :
        (thr[t].pc # "idle" /\ thr'[t].pc = "idle") =>
            /\ thr'[t].ok
            /\ thr[t].op = "get" =>
                /\ thr'[t].pos >= 0
                /\ thr'[t].pos < m_size'
                /\ At(m_dense_key', thr'[t].pos) = KeptKey
                /\ load(m_dense_value', thr'[t].pos) = shadow'[KeptKey]]_vars

\* C29 (specification SpecMutators): every step that reads or writes a slot
\* of m_dense_key or m_dense_value uses an index below the array's length:
\* the stores of insert at index m_size, the accesses of erase at
\* m_sparse[key] and m_size - 1, the reads of contains and get at
\* m_sparse[key]; checked for every step up to the first undefined one.
C29_IndicesInBounds ==
    [][\A t \in Threads :
        (~ub /\ thr'[t].pc \notin {thr[t].pc, "aborted"}) =>
            /\ thr[t].pc = "a_value" => m_size < Len(m_dense_value)
            /\ thr[t].pc = "a_key" => m_size < Len(m_dense_key)
            /\ thr[t].pc \in {"x_value", "x_key", "x_sparse"} => EraseInBounds(thr[t].key)
            /\ thr[t].pc = "c_body" =>
                (SparseTouch(m_sparse, thr[t].key)[thr[t].key] < m_size
                    => SparseTouch(m_sparse, thr[t].key)[thr[t].key] < Len(m_dense_key))
            /\ thr[t].pc = "ref_body" =>
                SparseTouch(m_sparse, thr[t].key)[thr[t].key] < Len(m_dense_value)]_vars

\* C30 (specification SpecEraseSame): once both writers' erase(k) of the
\* contained key k have returned, exactly one has returned true, size() is one
\* less than before, and every other key that was contained still is, with
\* its value.
C30_OneEraseWins ==
    (\A t \in Writers : thr[t].pc = "idle" /\ thr[t].calls = 1) =>
        /\ Cardinality({t \in Writers : thr[t].ok}) = 1
        /\ m_size = Cardinality(Live)
        /\ \A k \in Live :
            /\ containsConst(Cur, k)
            /\ load(m_dense_value, m_sparse[k]) = shadow[k]

\* C31 (specification SpecMutators): get(k) and the mutable operator[](k),
\* run against another thread's erase(k) or clear(), return the cell of a
\* slot that, when m_sparse[k] is read under the shared guard, lies below
\* m_size and holds k in m_dense_key; checked for every return that is not
\* itself part of a data race.
C31_GetAtomicWithErase ==
    [][\A t \in Threads :
        (/\ thr[t].pc = "ref_body"
         /\ thr'[t].pc = "idle"
         /\ ~ub') =>
            /\ thr'[t].pos >= 0
            /\ thr'[t].pos < m_size
            /\ At(m_dense_key, thr'[t].pos) = thr[t].key]_vars

\* C32 (specification SpecMutators): what a returned reserve(n) established
\* stays: every value of m_capacity is stored by a reserve that returns in
\* the same step, so the claim is that no later step of any thread lowers
\* m_capacity or shortens m_dense_value or m_dense_key.
C32_ReserveStable ==
    [][/\ m_capacity' >= m_capacity
       /\ Len(m_dense_value') >= Len(m_dense_value)
       /\ Len(m_dense_key') >= Len(m_dense_key)]_vars

=============================================================================
